---- MODULE Spec2Model ----
(***************************************************************************)
(* GrayImage (src/main.cpp, src/sprint42/sprint42.cpp): a grayscale image   *)
(* kept as height_, width_ and a row-major buffer data_, with its member    *)
(* operations and the free functions translate, isBinary and threshold.     *)
(* The buffer is a sequence; flat index i of the code is element i + 1.     *)
(***************************************************************************)
EXTENDS Integers, Sequences, FiniteSets, TLC

VARIABLES height_, width_, data_, aborted, op, arg, pre, ret

vars == <<height_, width_, data_, aborted, op, arg, pre, ret>>

(***************************************************************************)
(* Bounds of the model.                                                     *)
(***************************************************************************)
\* most pixels (height * width) of an image in the life-cycle specification Spec
MaxLifeCells == 4
\* most pixel bytes that follow the header of a PGM file
MaxPayload == 3
\* largest |dy| and |dx| passed to translate and translateInplace
MaxShift == 3
\* most pixels (height * width) of an image handed to translate / translateInplace
MaxCells == 9
\* most pixels of an image handed to isBinary / threshold
MaxGrayCells == 3
\* most pixels of an image handed to binaryFillHoles
MaxFillCells == 12
\* most pixels of an image whose translateInplace pass is followed step by step
MaxPassCells == 6
\* most pixels of an image translated in place several times in a row
MaxChainCells == 4
\* largest |sum dy| and |sum dx| of the shifts of such a row of calls
MaxTravel == 5

\* pixel values written by the life-cycle operations and the translations
BinaryLevels == {0, 255}
\* pixel values and thresholds of the isBinary / threshold inputs
GrayLevels == {0, 1, 128, 254, 255}

Shifts == (0 - MaxShift)..MaxShift

Abs(n) == IF n < 0 THEN 0 - n ELSE n

\* a height x width image over the given buffer
Image(height, width, data) == [height |-> height, width |-> width, data |-> data]

\* every image of at most maxCells pixels with samples in levels
ImagesUpTo(maxCells, levels) ==
  UNION { { Image(h, w, d) : d \in [1..(h * w) -> levels] } :
          <<h, w>> \in { p \in (1..maxCells) \X (1..maxCells) : p[1] * p[2] <= maxCells } }

\* the outcome of a call: completed with a value, or stopped by a failed assert
Ok(v) == [ok |-> TRUE, val |-> v]
Abort == [ok |-> FALSE]

(***************************************************************************)
(* class GrayImage                                                          *)
(***************************************************************************)
\* GrayImage::GrayImage()
EmptyImage == Image(0, 0, <<>>)

Zeros(n) == [i \in 1..n |-> 0]

\* GrayImage::GrayImage(int height, int width)
GrayImageSized(height, width) ==
  IF height > 0 /\ width > 0
  THEN Ok(Image(height, width, Zeros(height * width)))
  ELSE Abort

\* GrayImage::GrayImage(int height, int width, const std::string& data)
GrayImageLiteral(height, width, str) ==
  IF height > 0 /\ width > 0 /\ Len(str) = height * width
  THEN Ok(Image(height, width,
                [i \in 1..Len(str) |-> IF str[i] = "o" THEN 0 ELSE 255]))
  ELSE Abort

\* the asserts of GrayImage::operator()
InRange(image, y, x) ==
  /\ y >= 0 /\ y < image.height
  /\ x >= 0 /\ x < image.width

\* GrayImage::operator()(int y, int x) const, for (y, x) in range
At(image, y, x) == image.data[y * image.width + x + 1]

\* a write through GrayImage::operator()(int y, int x)
SetAt(image, y, x, value) ==
  IF InRange(image, y, x)
  THEN Ok([image EXCEPT !.data[y * image.width + x + 1] = value])
  ELSE Abort

\* GrayImage::resize without the swap of the new buffer
resize_keeps_buffer(image, height, width) ==
  IF height > 0 /\ width > 0
  THEN Ok(Image(height, width, image.data))
  ELSE Abort

\* GrayImage::resize
resize(image, height, width) ==
  IF height > 0 /\ width > 0
  THEN Ok(Image(height, width, Zeros(height * width)))
  ELSE Abort

\* GrayImage::fill
fill(image, value) == [image EXCEPT !.data = [i \in 1..Len(image.data) |-> value]]


(***************************************************************************)
(* GrayImage::loadFromPGM.  A file is what the reads of the stream yield:   *)
(* whether it opens, the magic token, the three header integers as the      *)
(* reads leave them (0 for a token that is no number; for a stream that has *)
(* ended, whatever the uninitialised int holds, the payload then being      *)
(* empty) and the bytes after the separator.                                *)
(***************************************************************************)
PGMFile(exists, magic, width, height, maxValue, payload) ==
  [exists |-> exists, magic |-> magic, width |-> width, height |-> height,
   maxValue |-> maxValue, payload |-> payload]

\* ifs.read((char*)&data_[0], width * height): the bytes present, then what resize left
readInto(data, payload) ==
  [i \in 1..Len(data) |-> IF i <= Len(payload) THEN payload[i] ELSE data[i]]

\* the lines loadFromPGM writes to std::cerr, without the value they end with
ErrOpen == "Failed to open file for reading: "
ErrMagic == "Unrecognized magic: "
ErrWidth == "Invalid width: "
ErrHeight == "Invalid height: "
ErrMaxValue == "Only max value of 255 is supported, got "
ErrRead == "Error reading pixel data"

\* what a call of loadFromPGM yields: the return code, the line on std::cerr and
\* the receiver afterwards
Loaded(rc, err, image) == [rc |-> rc, err |-> err, img |-> image]

\* loadFromPGM with resize called before the max value is checked
loadFromPGM_resize_before_maxValue(image, file) ==
  IF ~file.exists THEN Loaded(0 - 1, ErrOpen, image)
  ELSE IF file.magic # "P5" THEN Loaded(0 - 1, ErrMagic, image)
  ELSE IF file.width <= 0 THEN Loaded(0 - 1, ErrWidth, image)
  ELSE IF file.height <= 0 THEN Loaded(0 - 1, ErrHeight, image)
  ELSE LET resized == resize(image, file.height, file.width).val
           loaded  == [resized EXCEPT !.data = readInto(resized.data, file.payload)]
       IN  IF file.maxValue # 255 THEN Loaded(0 - 1, ErrMaxValue, resized)
           ELSE IF Len(file.payload) < file.width * file.height
           THEN Loaded(0 - 1, ErrRead, loaded)
           ELSE Loaded(0, "", loaded)

\* GrayImage::loadFromPGM
loadFromPGM(image, file) ==
  IF ~file.exists THEN Loaded(0 - 1, ErrOpen, image)
  ELSE IF file.magic # "P5" THEN Loaded(0 - 1, ErrMagic, image)
  ELSE IF file.width <= 0 THEN Loaded(0 - 1, ErrWidth, image)
  ELSE IF file.height <= 0 THEN Loaded(0 - 1, ErrHeight, image)
  ELSE IF file.maxValue # 255 THEN Loaded(0 - 1, ErrMaxValue, image)
  ELSE LET resized == resize(image, file.height, file.width).val
           loaded  == [resized EXCEPT !.data = readInto(resized.data, file.payload)]
       IN  IF Len(file.payload) < file.width * file.height
           THEN Loaded(0 - 1, ErrRead, loaded)
           ELSE Loaded(0, "", loaded)

(***************************************************************************)
(* GrayImage::translateInplace and its loop doTranslateInplace.  buf is the *)
(* buffer as the iterators see it: data_ itself for begin()/end(), data_    *)
(* reversed for rbegin()/rend().                                            *)
(***************************************************************************)
Reverse(s) == [i \in 1..Len(s) |-> s[Len(s) + 1 - i]]

\* the loop body leaving a destination without a source as it was, not black
doTranslateStep_keeps_uncovered(move_offset, dy, width, buf, dest) ==
  LET dest_y   == dest \div width
      source   == dest + Abs(move_offset)
      source_y == source \div width
  IN  IF Abs(dest_y - source_y) > Abs(dy) \/ source < 0 \/ source >= Len(buf)
      THEN buf
      ELSE [buf EXCEPT ![dest + 1] = buf[source + 1]]

\* the loop body without the row test: only a source outside the buffer is black
doTranslateStep_no_row_guard(move_offset, dy, width, buf, dest) ==
  LET source == dest + Abs(move_offset)
  IN  IF source < 0 \/ source >= Len(buf)
      THEN [buf EXCEPT ![dest + 1] = 0]
      ELSE [buf EXCEPT ![dest + 1] = buf[source + 1]]

\* the loop body pulling from behind the destination: source = dest - |move_offset|
doTranslateStep_pulls_behind(move_offset, dy, width, buf, dest) ==
  LET dest_y   == dest \div width
      source   == dest - Abs(move_offset)
      source_y == source \div width
  IN  IF Abs(dest_y - source_y) > Abs(dy) \/ source < 0 \/ source >= Len(buf)
      THEN [buf EXCEPT ![dest + 1] = 0]
      ELSE [buf EXCEPT ![dest + 1] = buf[source + 1]]

\* one pass of the loop body, at destination dest (distance from iter_begin)
doTranslateStep(move_offset, dy, width, buf, dest) ==
  LET dest_y   == dest \div width
      source   == dest + Abs(move_offset)
      source_y == source \div width
  IN  IF Abs(dest_y - source_y) > Abs(dy) \/ source < 0 \/ source >= Len(buf)
      THEN [buf EXCEPT ![dest + 1] = 0]
      ELSE [buf EXCEPT ![dest + 1] = buf[source + 1]]

\* int source = dest + std::abs(move_offset), as a distance from iter_begin
doTranslateSource(move_offset, dest) == dest + Abs(move_offset)

\* whether the loop body at dest takes the else branch and reads *source_it
doTranslateReads(move_offset, dy, width, buf, dest) ==
  LET dest_y   == dest \div width
      source   == doTranslateSource(move_offset, dest)
      source_y == source \div width
  IN  ~(Abs(dest_y - source_y) > Abs(dy) \/ source < 0 \/ source >= Len(buf))

\* the index in data_ of the element at distance i from iter_begin: i itself for
\* begin(), counted from the back for rbegin() (taken when move_offset > 0)
FlatIndex(move_offset, n, i) == IF move_offset > 0 THEN n - 1 - i ELSE i

RECURSIVE doTranslateFrom(_, _, _, _, _)
\* the loop from dest_it onwards
doTranslateFrom(move_offset, dy, width, buf, dest) ==
  IF dest >= Len(buf) THEN buf
  ELSE doTranslateFrom(move_offset, dy, width,
                       doTranslateStep(move_offset, dy, width, buf, dest), dest + 1)

\* doTranslateInplace(move_offset, dy, width_, iter_begin, iter_end)
doTranslateInplace(move_offset, dy, width, buf) ==
  doTranslateFrom(move_offset, dy, width, buf, 0)

\* translateInplace with the flat offset taken over the height: dy * height_ + dx
translateInplace_offset_by_height(image, dy, dx) ==
  LET move_offset == dy * image.height + dx
  IN  IF move_offset < 0
      THEN [image EXCEPT !.data =
              doTranslateInplace(move_offset, dy, image.width, image.data)]
      ELSE IF move_offset > 0
      THEN [image EXCEPT !.data =
              Reverse(doTranslateInplace(move_offset, dy, image.width,
                                         Reverse(image.data)))]
      ELSE image

\* GrayImage::translateInplace
translateInplace(image, dy, dx) ==
  LET move_offset == dy * image.width + dx
  IN  IF move_offset < 0
      THEN [image EXCEPT !.data = doTranslateInplace(move_offset, dy, image.width, image.data)]
      ELSE IF move_offset > 0
      THEN [image EXCEPT !.data =
              Reverse(doTranslateInplace(move_offset, dy, image.width, Reverse(image.data)))]
      ELSE image


(***************************************************************************)
(* The free functions.                                                      *)
(***************************************************************************)
\* std::string(n, 'o')
Os(n) == [i \in 1..n |-> "o"]

RECURSIVE translateLoop_wraps(_, _, _, _, _)
\* the loops of translate carrying a pixel shifted out of the image round to the
\* opposite edge
translateLoop_wraps(image, dy, dx, k, result) ==
  IF k >= image.height * image.width THEN result
  ELSE LET cur_height == k \div image.width
           cur_width  == k % image.width
           cur_y      == (cur_height + dy) % image.height
           cur_x      == (cur_width + dx) % image.width
           written    == [result EXCEPT !.data[cur_y * result.width + cur_x + 1] =
                                           At(image, cur_height, cur_width)]
       IN  translateLoop_wraps(image, dy, dx, k + 1, written)

RECURSIVE translateLoop(_, _, _, _, _)
\* the two nested loops of translate, from the source pixel with flat index k on:
\* cur_height = k / width, cur_width = k % width
translateLoop(image, dy, dx, k, result) ==
  IF k >= image.height * image.width THEN result
  ELSE LET cur_height == k \div image.width
           cur_width  == k % image.width
           cur_y      == cur_height + dy
           cur_x      == cur_width + dx
           written    ==
             IF cur_y >= 0 /\ cur_y < image.height /\ cur_x >= 0 /\ cur_x < image.width
             THEN [result EXCEPT !.data[cur_y * result.width + cur_x + 1] =
                                    At(image, cur_height, cur_width)]
             ELSE result
       IN  translateLoop(image, dy, dx, k + 1, written)

\* translate that pulls the source of (y, x) from (y + dy, x + dx)
translate_backwards(image, dy, dx) ==
  IF dy = 0 /\ dx = 0 THEN Ok(image)
  ELSE IF Abs(dx) >= image.width \/ Abs(dy) >= image.height
  THEN GrayImageLiteral(image.height, image.width, Os(image.width * image.height))
  ELSE LET result == GrayImageLiteral(image.height, image.width,
                                      Os(image.width * image.height))
       IN  IF result.ok
           THEN Ok(translateLoop(image, 0 - dy, 0 - dx, 0, result.val))
           ELSE Abort

\* translate(const GrayImage& image, int dy, int dx)
translate(image, dy, dx) ==
  IF dy = 0 /\ dx = 0 THEN Ok(image)
  ELSE IF Abs(dx) >= image.width \/ Abs(dy) >= image.height
  THEN GrayImageLiteral(image.height, image.width, Os(image.width * image.height))
  ELSE LET result == GrayImageLiteral(image.height, image.width,
                                      Os(image.width * image.height))
       IN  IF result.ok
           THEN Ok(translateLoop(image, dy, dx, 0, result.val))
           ELSE Abort

RECURSIVE isBinaryFrom(_, _)
\* the scan of isBinary from flat index k on, returning false at the first gray pixel
isBinaryFrom(image, k) ==
  IF k >= image.height * image.width THEN TRUE
  ELSE LET p == At(image, k \div image.width, k % image.width)
       IN  IF p # 0 /\ p # 255 THEN FALSE ELSE isBinaryFrom(image, k + 1)

\* isBinary without the test for the empty image
isBinary_empty_is_binary(image) == isBinaryFrom(image, 0)

\* isBinary(const GrayImage& image)
isBinary(image) ==
  IF image.height = 0 \/ image.width = 0 THEN FALSE
  ELSE isBinaryFrom(image, 0)

RECURSIVE thresholdLoop(_, _, _, _)
\* the two nested loops of threshold, from flat index k on
thresholdLoop(image, thr, k, result) ==
  IF k >= image.height * image.width THEN result
  ELSE thresholdLoop(image, thr, k + 1,
         [result EXCEPT !.data[k + 1] =
            IF At(image, k \div image.width, k % image.width) < thr THEN 0 ELSE 255])

\* threshold that compares with <= instead of <
threshold_inclusive(image, thr) ==
  LET result == GrayImageSized(image.height, image.width)
  IN  IF result.ok
      THEN Ok([result.val EXCEPT !.data =
                 [i \in 1..Len(image.data) |-> IF image.data[i] <= thr THEN 0 ELSE 255]])
      ELSE Abort

\* threshold that writes back the pixels that are not below thr instead of 255
threshold_keeps_bright(image, thr) ==
  LET result == GrayImageSized(image.height, image.width)
  IN  IF result.ok
      THEN Ok([result.val EXCEPT !.data =
                 [i \in 1..Len(image.data) |->
                    IF image.data[i] < thr THEN 0 ELSE image.data[i]]])
      ELSE Abort

\* threshold(const GrayImage& image, uint8_t thr)
threshold(image, thr) ==
  LET result == GrayImageSized(image.height, image.width)
  IN  IF result.ok
      THEN Ok(thresholdLoop(image, thr, 0, result.val))
      ELSE Abort


(***************************************************************************)
(* binaryFillHoles is declared in the source and not implemented there; it  *)
(* is modelled from its contract: a flood fill over the black pixels from   *)
(* the black pixels of the border, after which every black pixel the fill   *)
(* has not reached becomes white.  A pixel is the pair <<y, x>>.            *)
(***************************************************************************)
Pixels(image) == (0..(image.height - 1)) \X (0..(image.width - 1))

\* the pixels of the first and last row and of the first and last column
Border(image) ==
  { p \in Pixels(image) :
      \/ p[1] = 0 \/ p[1] = image.height - 1
      \/ p[2] = 0 \/ p[2] = image.width - 1 }

\* up, down, left and right of p (4-connectivity)
Neighbours(p) ==
  { <<p[1] - 1, p[2]>>, <<p[1] + 1, p[2]>>, <<p[1], p[2] - 1>>, <<p[1], p[2] + 1>> }

BlackPixels(image) == { p \in Pixels(image) : At(image, p[1], p[2]) = 0 }

RECURSIVE floodFill(_, _, _)
\* the worklist loop: visited are the black pixels reached so far, frontier the
\* ones whose neighbours are still to be looked at
floodFill(image, frontier, visited) ==
  IF frontier = {} THEN visited
  ELSE LET found == { q \in UNION { Neighbours(p) : p \in frontier } :
                        q \in BlackPixels(image) /\ q \notin visited }
       IN  floodFill(image, found, visited \cup found)

\* the black pixels joined to the border by a 4-connected path of black pixels
borderReachable(image) ==
  LET seeds == Border(image) \cap BlackPixels(image)
  IN  floodFill(image, seeds, seeds)

\* binaryFillHoles that writes the holes into a black result and leaves out the
\* white pixels of the source
binaryFillHoles_holes_only(image) ==
  LET reached == borderReachable(image)
  IN  [image EXCEPT !.data =
         [i \in 1..Len(image.data) |->
            LET p == <<(i - 1) \div image.width, (i - 1) % image.width>>
            IN  IF image.data[i] = 0 /\ p \notin reached THEN 255 ELSE 0]]

\* binaryFillHoles(const GrayImage& image)
binaryFillHoles(image) ==
  LET reached == borderReachable(image)
  IN  [image EXCEPT !.data =
         [i \in 1..Len(image.data) |->
            LET p == <<(i - 1) \div image.width, (i - 1) % image.width>>
            IN  IF image.data[i] = 255 THEN 255
                ELSE IF image.data[i] = 0 /\ p \notin reached THEN 255
                ELSE image.data[i]]]

(***************************************************************************)
(* binaryBackground is declared in the source and not implemented there     *)
(* either; it is modelled from its contract: dst(y, x) = 255 iff            *)
(* src(y, x) = 0 and a path of black pixels joins (y, x) to the border.     *)
(***************************************************************************)
\* binaryBackground without the flood fill: only the black pixels of the border
\* themselves are marked
binaryBackground_border_only(image) ==
  LET reached == Border(image) \cap BlackPixels(image)
  IN  [image EXCEPT !.data =
         [i \in 1..Len(image.data) |->
            LET p == <<(i - 1) \div image.width, (i - 1) % image.width>>
            IN  IF image.data[i] = 0 /\ p \in reached THEN 255 ELSE 0]]

\* binaryBackground(const GrayImage& image)
binaryBackground(image) ==
  LET reached == borderReachable(image)
  IN  [image EXCEPT !.data =
         [i \in 1..Len(image.data) |->
            LET p == <<(i - 1) \div image.width, (i - 1) % image.width>>
            IN  IF image.data[i] = 0 /\ p \in reached THEN 255 ELSE 0]]

(***************************************************************************)
(* The state machine.  height_, width_, data_ are the members of the image  *)
(* under test; aborted says that an assert has stopped the process; op, arg *)
(* and pre record the last call, its arguments and the image it was made    *)
(* on; ret is what the call returned.                                       *)
(***************************************************************************)
Self == Image(height_, width_, data_)

Void == "void"
NoArg == <<>>

Becomes(image) ==
  /\ height_' = image.height
  /\ width_' = image.width
  /\ data_' = image.data

\* a constructor or a void member call: the receiver becomes the outcome's image,
\* or the failed assert stops the process and nothing is written
Mutates(outcome) ==
  IF outcome.ok
  THEN Becomes(outcome.val) /\ aborted' = FALSE
  ELSE UNCHANGED <<height_, width_, data_>> /\ aborted' = TRUE

\* a free function on the image: the receiver is only read
Returns(outcome) ==
  /\ UNCHANGED <<height_, width_, data_>>
  /\ aborted' = ~outcome.ok
  /\ ret' = IF outcome.ok THEN outcome.val ELSE Void

\* a coordinate or a dimension passed by a caller, the out-of-range ones included
Coords == (0 - 1)..MaxLifeCells

\* constructor and resize arguments (height, width), the non-positive ones included
CtorDims == { p \in Coords \X Coords : p[1] * p[2] <= MaxLifeCells }

\* the strings of 'o' and 'x' handed to the literal constructor with height * width
\* = n: of the right length, one short and one long
Literals(n) ==
  UNION { [1..m -> {"o", "x"}] : m \in { k \in {n - 1, n, n + 1} : k >= 0 } }

\* the pixel bytes of a file: white pixels, fewer or more than the header declares
Payloads == { [i \in 1..n |-> 255] : n \in 0..MaxPayload }

\* the files loadFromPGM is given: one that cannot be opened, and every header
\* with every payload
PGMFiles ==
  { PGMFile(FALSE, "", 0, 0, 0, <<>>) } \cup
  { PGMFile(TRUE, m, d[2], d[1], v, p) :
      m \in {"P5", "P2"},
      d \in { q \in CtorDims : q[1] >= 0 /\ q[2] >= 0 },
      v \in {255, 65535}, p \in Payloads }

\* GrayImage im;
DefaultCtor ==
  /\ ~aborted
  /\ op' = "GrayImage" /\ arg' = NoArg /\ pre' = EmptyImage /\ ret' = Void
  /\ Mutates(Ok(EmptyImage))

\* GrayImage im(height, width);
SizedCtor ==
  \E d \in CtorDims :
    /\ ~aborted
    /\ op' = "GrayImage" /\ arg' = NoArg /\ pre' = EmptyImage /\ ret' = Void
    /\ Mutates(GrayImageSized(d[1], d[2]))

\* GrayImage im(height, width, "xo...");
LiteralCtor ==
  \E d \in CtorDims :
    \E str \in Literals(d[1] * d[2]) :
      /\ ~aborted
      /\ op' = "GrayImage" /\ arg' = NoArg /\ pre' = EmptyImage /\ ret' = Void
      /\ Mutates(GrayImageLiteral(d[1], d[2], str))

\* im.resize(height, width);
Resize ==
  \E d \in CtorDims :
    /\ ~aborted
    /\ op' = "resize" /\ arg' = NoArg /\ pre' = Self /\ ret' = Void
    /\ Mutates(resize(Self, d[1], d[2]))

\* im.fill(value);
Fill ==
  \E v \in BinaryLevels :
    /\ ~aborted
    /\ op' = "fill" /\ arg' = NoArg /\ pre' = Self /\ ret' = Void
    /\ Mutates(Ok(fill(Self, v)))

\* im(y, x) = value;
SetPixel ==
  \E y \in Coords, x \in Coords, v \in BinaryLevels :
    /\ ~aborted
    /\ op' = "operator()" /\ arg' = NoArg /\ pre' = Self /\ ret' = Void
    /\ Mutates(SetAt(Self, y, x, v))

\* im.translateInplace(dy, dx);
TranslateInplace ==
  \E dy \in Shifts, dx \in Shifts :
    /\ ~aborted
    /\ op' = "translateInplace" /\ arg' = [dy |-> dy, dx |-> dx]
    /\ pre' = Self /\ ret' = Void
    /\ Mutates(Ok(translateInplace(Self, dy, dx)))

\* im.loadFromPGM(path);
LoadFromPGM ==
  \E file \in PGMFiles :
    LET r == loadFromPGM(Self, file)
    IN  /\ ~aborted
        /\ op' = "loadFromPGM" /\ arg' = NoArg /\ pre' = Self
        /\ ret' = [rc |-> r.rc, err |-> r.err]
        /\ Mutates(Ok(r.img))

\* translate(im, dy, dx);
Translate ==
  \E dy \in Shifts, dx \in Shifts :
    /\ ~aborted
    /\ op' = "translate" /\ arg' = [dy |-> dy, dx |-> dx] /\ pre' = Self
    /\ Returns(translate(Self, dy, dx))

\* isBinary(im);
IsBinary ==
  /\ ~aborted
  /\ op' = "isBinary" /\ arg' = NoArg /\ pre' = Self
  /\ Returns(Ok(isBinary(Self)))

\* threshold(im, thr);
Threshold ==
  \E thr \in GrayLevels :
    /\ ~aborted
    /\ op' = "threshold" /\ arg' = [thr |-> thr] /\ pre' = Self
    /\ Returns(threshold(Self, thr))

\* the state a block of main() starts from, with im the image it has built
Starts(image) ==
  /\ height_ = image.height /\ width_ = image.width /\ data_ = image.data
  /\ aborted = FALSE
  /\ op = "GrayImage" /\ arg = NoArg /\ pre = EmptyImage /\ ret = Void

(***************************************************************************)
(* Spec: the life of one GrayImage, from the default constructor, under its *)
(* member operations.                                                       *)
(***************************************************************************)
Init == Starts(EmptyImage)

Next ==
  \/ DefaultCtor
  \/ SizedCtor
  \/ LiteralCtor
  \/ Resize
  \/ Fill
  \/ SetPixel
  \/ TranslateInplace
  \/ LoadFromPGM

Spec == Init /\ [][Next]_vars

(***************************************************************************)
(* SpecTranslate: the two translations on every binary image of at most     *)
(* MaxCells pixels and on the empty image.                                  *)
(***************************************************************************)
InitTranslate ==
  \E image \in ImagesUpTo(MaxCells, BinaryLevels) \cup {EmptyImage} : Starts(image)

\* a block of main(): one call on the image the block has built
Fresh == op = "GrayImage"

NextTranslate ==
  \/ Fresh /\ TranslateInplace
  \/ Fresh /\ Translate

SpecTranslate == InitTranslate /\ [][NextTranslate]_vars

(***************************************************************************)
(* SpecBinary: isBinary and threshold on every image of at most             *)
(* MaxGrayCells pixels over GrayLevels and on the empty image.              *)
(***************************************************************************)
InitBinary ==
  \E image \in ImagesUpTo(MaxGrayCells, GrayLevels) \cup {EmptyImage} : Starts(image)

NextBinary ==
  \/ IsBinary
  \/ Threshold

SpecBinary == InitBinary /\ [][NextBinary]_vars


(***************************************************************************)
(* SpecFill: binaryFillHoles and binaryBackground on every binary image of  *)
(* at most MaxFillCells pixels.                                             *)
(***************************************************************************)
\* binaryFillHoles(im);
BinaryFillHoles ==
  /\ ~aborted
  /\ op' = "binaryFillHoles" /\ arg' = NoArg /\ pre' = Self
  /\ Returns(Ok(binaryFillHoles(Self)))

\* binaryBackground(im);
BinaryBackground ==
  /\ ~aborted
  /\ op' = "binaryBackground" /\ arg' = NoArg /\ pre' = Self
  /\ Returns(Ok(binaryBackground(Self)))

InitFill ==
  \E image \in ImagesUpTo(MaxFillCells, BinaryLevels) : Starts(image)

NextFill ==
  \/ Fresh /\ BinaryFillHoles
  \/ Fresh /\ BinaryBackground

SpecFill == InitFill /\ [][NextFill]_vars

(***************************************************************************)
(* SpecPass: one call of translateInplace followed through the iterations   *)
(* of doTranslateInplace, on every binary image of at most MaxPassCells     *)
(* pixels.  While the loop runs op is "doTranslateInplace", arg.dest is the *)
(* distance of dest_it from iter_begin and arg.written the indices of data_ *)
(* the loop has written; ret describes the iteration just made.             *)
(***************************************************************************)
\* im.translateInplace(dy, dx): move_offset is computed and the loop is entered,
\* or the call returns at once when move_offset is 0
InplaceCall ==
  \E dy \in Shifts, dx \in Shifts :
    /\ ~aborted /\ Fresh
    /\ pre' = Self /\ ret' = Void
    /\ UNCHANGED <<height_, width_, data_, aborted>>
    /\ IF dy * width_ + dx = 0
       THEN op' = "translateInplace" /\ arg' = [dy |-> dy, dx |-> dx]
       ELSE /\ op' = "doTranslateInplace"
            /\ arg' = [dy |-> dy, dx |-> dx, dest |-> 0, written |-> {}]

\* one iteration of the for loop of doTranslateInplace
InplaceStep ==
  LET move_offset == arg.dy * width_ + arg.dx
      n           == Len(data_)
      buf         == IF move_offset > 0 THEN Reverse(data_) ELSE data_
      stepped     == doTranslateStep(move_offset, arg.dy, width_, buf, arg.dest)
      reads       == doTranslateReads(move_offset, arg.dy, width_, buf, arg.dest)
      dest        == FlatIndex(move_offset, n, arg.dest)
  IN  /\ ~aborted /\ op = "doTranslateInplace"
      /\ arg.dest < n
      /\ data_' = IF move_offset > 0 THEN Reverse(stepped) ELSE stepped
      /\ arg' = [arg EXCEPT !.dest = arg.dest + 1, !.written = arg.written \cup {dest}]
      /\ ret' = [dest   |-> dest,
                 copied |-> reads,
                 source |-> IF reads
                            THEN FlatIndex(move_offset, n,
                                           doTranslateSource(move_offset, arg.dest))
                            ELSE 0 - 1,
                 before |-> arg.written]
      /\ UNCHANGED <<height_, width_, aborted, op, pre>>

\* dest_it has reached iter_end: doTranslateInplace and translateInplace return
InplaceReturn ==
  /\ ~aborted /\ op = "doTranslateInplace"
  /\ arg.dest >= Len(data_)
  /\ op' = "translateInplace" /\ arg' = [dy |-> arg.dy, dx |-> arg.dx]
  /\ ret' = Void
  /\ UNCHANGED <<height_, width_, data_, aborted, pre>>

InitPass ==
  \E image \in ImagesUpTo(MaxPassCells, BinaryLevels) \cup {EmptyImage} : Starts(image)

NextPass ==
  \/ InplaceCall
  \/ InplaceStep
  \/ InplaceReturn

SpecPass == InitPass /\ [][NextPass]_vars

(***************************************************************************)
(* SpecChain: translateInplace called again and again on one image of at    *)
(* most MaxChainCells pixels, with shifts that all lie in one closed        *)
(* quadrant.  arg keeps, beside the shift of the last call, the image       *)
(* before the first call, the sums of the shifts so far and the quadrants   *)
(* that hold every shift so far.                                            *)
(***************************************************************************)
Quadrants == {"nonnegative", "nonpositive"}

InQuadrant(q, dy, dx) ==
  IF q = "nonnegative" THEN dy >= 0 /\ dx >= 0 ELSE dy <= 0 /\ dx <= 0

\* im.translateInplace(dy, dx), the first call on im or a further one
ChainedTranslateInplace ==
  \E dy \in Shifts, dx \in Shifts :
    LET first     == Fresh
        original  == IF first THEN Self ELSE arg.original
        sum_dy    == IF first THEN dy ELSE arg.sum_dy + dy
        sum_dx    == IF first THEN dx ELSE arg.sum_dx + dx
        quadrants == {q \in IF first THEN Quadrants ELSE arg.quadrants :
                        InQuadrant(q, dy, dx)}
    IN  /\ ~aborted
        /\ quadrants # {}
        /\ Abs(sum_dy) <= MaxTravel /\ Abs(sum_dx) <= MaxTravel
        /\ op' = "translateInplace"
        /\ arg' = [dy |-> dy, dx |-> dx, original |-> original,
                   sum_dy |-> sum_dy, sum_dx |-> sum_dx, quadrants |-> quadrants]
        /\ pre' = Self /\ ret' = Void
        /\ Mutates(Ok(translateInplace(Self, dy, dx)))

InitChain ==
  \E image \in ImagesUpTo(MaxChainCells, BinaryLevels) \cup {EmptyImage} : Starts(image)

NextChain == ChainedTranslateInplace

SpecChain == InitChain /\ [][NextChain]_vars

(***************************************************************************)
(* The properties.                                                          *)
(***************************************************************************)
\* the pixel of image at (y, x), pixels outside the image being black
sample(image, y, x) == IF InRange(image, y, x) THEN At(image, y, x) ELSE 0

NonEmpty(image) == image.height > 0 /\ image.width > 0

AllBlack(data) == \A i \in 1..Len(data) : data[i] = 0

BeyondExtent(image, dy, dx) == Abs(dx) >= image.width \/ Abs(dy) >= image.height

\* C1: translateInplace(dy, dx) on a copy of a (non-empty) image I leaves the copy
\* pixel-for-pixel equal to translate(I, dy, dx), for every signed dy, dx
C1_InplaceEqualsCopy ==
  (op = "translateInplace" /\ NonEmpty(pre)) =>
    LET copy == translate(pre, arg.dy, arg.dx)
    IN  copy.ok /\ Self = copy.val

\* C2: for a non-empty H x W image I, translate(I, dy, dx) returns an H x W image Q
\* with Q(y, x) = I(y - dy, x - dx) where that is inside the image and 0 elsewhere;
\* translate(I, 0, 0) = I and Q is all black when |dx| >= W or |dy| >= H
C2_TranslateContract ==
  (op = "translate" /\ NonEmpty(pre)) =>
    /\ ~aborted
    /\ ret.height = pre.height /\ ret.width = pre.width
    /\ Len(ret.data) = pre.height * pre.width
    /\ \A y \in 0..(pre.height - 1), x \in 0..(pre.width - 1) :
         At(ret, y, x) = sample(pre, y - arg.dy, x - arg.dx)
    /\ (arg.dy = 0 /\ arg.dx = 0) => ret = pre
    /\ BeyondExtent(pre, arg.dy, arg.dx) => AllBlack(ret.data)

\* C2 witness: an opposite-signed shift inside the extent has moved a white pixel
C2_Witness ==
  /\ op = "translate" /\ ~aborted
  /\ pre.height = 3 /\ pre.width = 3
  /\ arg.dy = 0 - 1 /\ arg.dx = 1
  /\ At(pre, 1, 0) = 255 /\ At(ret, 0, 1) = 255
  /\ ret # pre

\* C3: after translateInplace(dy, dx) with |dx| >= width or |dy| >= height, whatever
\* the other component, every sample of the buffer is 0
C3_InplaceBlackBeyondExtent ==
  (op = "translateInplace" /\ BeyondExtent(pre, arg.dy, arg.dx)) => AllBlack(data_)

\* C9: translate(I, dy, dx) returns an image of I's dimensions for every image, the
\* empty one included, and every signed dy, dx, with no assertion failure
C9_TranslateTotal ==
  (op = "translate") =>
    /\ ~aborted
    /\ ret.height = pre.height /\ ret.width = pre.width


BinarySamples(data) == \A i \in 1..Len(data) : data[i] \in {0, 255}

\* C4: isBinary is false for the empty image; for a non-empty image it is true
\* exactly when every pixel is 0 or 255
C4_IsBinaryContract ==
  (op = "isBinary") =>
    /\ ~aborted
    /\ (pre.height = 0 \/ pre.width = 0) => ret = FALSE
    /\ NonEmpty(pre) => (ret = BinarySamples(pre.data))

\* C4 witness: one gray pixel among black and white ones makes isBinary false
C4_Witness ==
  /\ op = "isBinary" /\ ret = FALSE
  /\ Len(pre.data) = 3
  /\ pre.data[1] = 0 /\ pre.data[2] = 128 /\ pre.data[3] = 255

\* C5: for a non-empty image and thr in [0,255], threshold returns an image of the
\* same dimensions with 0 where the pixel is < thr and 255 elsewhere; thr = 0 gives
\* all 255, thr = 255 keeps only the pixels equal to 255, and a binary image is
\* returned unchanged for every thr in [1,255]
C5_ThresholdContract ==
  (op = "threshold" /\ NonEmpty(pre)) =>
    /\ ~aborted
    /\ ret.height = pre.height /\ ret.width = pre.width
    /\ Len(ret.data) = Len(pre.data)
    /\ \A i \in 1..Len(pre.data) :
         ret.data[i] = IF pre.data[i] < arg.thr THEN 0 ELSE 255
    /\ arg.thr = 0 => \A i \in 1..Len(ret.data) : ret.data[i] = 255
    /\ arg.thr = 255 =>
         \A i \in 1..Len(ret.data) : (ret.data[i] = 255) <=> (pre.data[i] = 255)
    /\ (BinarySamples(pre.data) /\ arg.thr >= 1) => ret = pre

\* C5 witness: a threshold strictly between two gray pixels has separated them, and
\* the pixel equal to the threshold has become white
C5_Witness ==
  /\ op = "threshold" /\ ~aborted
  /\ arg.thr = 128
  /\ pre.data = <<1, 128, 254>>
  /\ ret.data = <<0, 255, 255>>

C7_BufferLength == Len(data_) = height_ * width_

\* C7 witness: a load that failed after resizing the image
C7_Witness ==
  /\ op = "loadFromPGM" /\ ret.rc = 0 - 1
  /\ height_ # pre.height
  /\ Len(data_) = 4

\* C8: whenever loadFromPGM returns -1, for any cause, the process is not aborted
\* and the receiver's height, width and pixels are what they were before the call
C8_FailedLoadLeavesImage ==
  (op = "loadFromPGM" /\ ret.rc = 0 - 1) => (~aborted /\ Self = pre)

\* C8 as amended: a load that returns -1 does not abort; it leaves the receiver as
\* it was when the file cannot be opened or the header is rejected, and when the
\* pixel data is short the receiver has been resized to positive dimensions and is
\* black from some pixel on, its last pixel at least
C8_FailedLoadUnchangedUnlessShortRead ==
  (op = "loadFromPGM" /\ ret.rc = 0 - 1) =>
    /\ ~aborted
    /\ ret.err # ErrRead => Self = pre
    /\ ret.err = ErrRead =>
         /\ height_ > 0 /\ width_ > 0
         /\ Len(data_) = height_ * width_
         /\ \E n \in 0..(Len(data_) - 1) :
              /\ \A i \in 1..n : data_[i] = 255
              /\ \A i \in (n + 1)..Len(data_) : data_[i] = 0

\* C8 witness: a short read has failed on an image that was not empty
C8_Witness ==
  /\ op = "loadFromPGM" /\ ret.rc = 0 - 1 /\ ret.err = ErrRead
  /\ NonEmpty(pre)
  /\ data_ = <<255, 0, 0, 0>>


\* C10: binaryFillHoles is idempotent: for every binary image I,
\* binaryFillHoles(binaryFillHoles(I)) = binaryFillHoles(I)
C10_FillHolesIdempotent ==
  (op = "binaryFillHoles") => binaryFillHoles(ret) = ret

\* C10 witness: a hole of two pixels has been filled next to black pixels that
\* reach the border and stay black
C10_Witness ==
  /\ op = "binaryFillHoles"
  /\ pre.height = 3 /\ pre.width = 4
  /\ pre.data = <<255, 255, 255, 0,
                  255, 0, 0, 255,
                  0, 255, 255, 255>>
  /\ ret.data = <<255, 255, 255, 0,
                  255, 255, 255, 255,
                  0, 255, 255, 255>>


\* the pixels of image with the given value
PixelsWith(image, value) == { p \in Pixels(image) : At(image, p[1], p[2]) = value }

\* C11: the pixels that are 255 in binaryBackground(I), united with the pixels that
\* are still 0 in binaryFillHoles(I), are exactly the pixels that are 0 in I
C11_BackgroundAndSurvivorsAreBlack ==
  (op = "binaryBackground") =>
    PixelsWith(ret, 255) \cup PixelsWith(binaryFillHoles(pre), 0) = PixelsWith(pre, 0)

\* C11 as amended: the pixels that are 255 in binaryBackground(I) are the pixels
\* that are still 0 in binaryFillHoles(I); united, they are the pixels that are 0 in
\* I without the pixels binaryFillHoles has turned white, and so all the pixels that
\* are 0 in I exactly when binaryFillHoles(I) = I
C11_BackgroundIsSurvivors ==
  (op = "binaryBackground") =>
    LET filled == binaryFillHoles(pre)
        holes  == PixelsWith(pre, 0) \cap PixelsWith(filled, 255)
        both   == PixelsWith(ret, 255) \cup PixelsWith(filled, 0)
    IN  /\ PixelsWith(ret, 255) = PixelsWith(filled, 0)
        /\ both = PixelsWith(pre, 0) \ holes
        /\ (both = PixelsWith(pre, 0)) <=> (filled = pre)

\* C11 witness: an image with a hole of two pixels and two black pixels on the
\* border; the background marks the two and not the hole
C11_Witness ==
  /\ op = "binaryBackground"
  /\ pre.height = 3 /\ pre.width = 4
  /\ pre.data = <<255, 255, 255, 0,
                  255, 0, 0, 255,
                  0, 255, 255, 255>>
  /\ ret.data = <<0, 0, 0, 255,
                  0, 0, 0, 0,
                  255, 0, 0, 0>>


\* dy and dx do not have opposite signs
SameSign(dy, dx) == (dy >= 0 /\ dx >= 0) \/ (dy <= 0 /\ dx <= 0)

C14_SameSignInplaceEqualsCopy ==
  (op = "translateInplace" /\ NonEmpty(pre) /\ SameSign(arg.dy, arg.dx)) =>
    LET copy == translate(pre, arg.dy, arg.dx)
    IN  /\ copy.ok /\ Self = copy.val
        /\ \A y \in 0..(height_ - 1), x \in 0..(width_ - 1) :
             At(Self, y, x) = IF InRange(pre, y - arg.dy, x - arg.dx)
                              THEN At(pre, y - arg.dy, x - arg.dx)
                              ELSE 0

\* C14 witness: a diagonal shift up and to the left has moved a white pixel and
\* blacked out the last column, whose sources lie one row further down the buffer
C14_Witness ==
  /\ op = "translateInplace"
  /\ pre.height = 3 /\ pre.width = 3
  /\ arg.dy = 0 - 1 /\ arg.dx = 0 - 1
  /\ pre.data = <<0, 0, 0, 255, 255, 0, 255, 0, 0>>
  /\ data_ = <<255, 0, 0, 0, 0, 0, 0, 0, 0>>

\* C15: for a non-empty image I and any dy, dx, the round trip
\* R = translate(translate(I, dy, dx), -dy, -dx) has R(y, x) = I(y, x) where
\* (y + dy, x + dx) lies inside the image and R(y, x) = 0 elsewhere; so R = I exactly
\* when every pixel shifted out of the image was black
C15_RoundTrip ==
  (op = "translate" /\ NonEmpty(pre)) =>
    LET back       == translate(ret, 0 - arg.dy, 0 - arg.dx)
        shiftedOut == {p \in (0..(pre.height - 1)) \X (0..(pre.width - 1)) :
                         ~InRange(pre, p[1] + arg.dy, p[2] + arg.dx)}
    IN  /\ ~aborted /\ back.ok
        /\ back.val.height = pre.height /\ back.val.width = pre.width
        /\ \A y \in 0..(pre.height - 1), x \in 0..(pre.width - 1) :
             At(back.val, y, x) = IF <<y, x>> \in shiftedOut THEN 0 ELSE At(pre, y, x)
        /\ (back.val = pre) <=> (\A p \in shiftedOut : At(pre, p[1], p[2]) = 0)

\* C15 witness: the white pixel of the last column was shifted out and the round
\* trip returns it black
C15_Witness ==
  /\ op = "translate" /\ ~aborted
  /\ pre.height = 2 /\ pre.width = 2
  /\ arg.dy = 0 /\ arg.dx = 1
  /\ pre.data = <<255, 255, 0, 0>>
  /\ ret.data = <<0, 255, 0, 0>>
  /\ translate(ret, 0, 0 - 1).val.data = <<255, 0, 0, 0>>

\* an iteration of the loop of doTranslateInplace has just been made
InPass == op = "doTranslateInplace" /\ arg.dest > 0

\* C12: in the single pass of translateInplace (ascending flat order when
\* dy*W+dx < 0, descending when > 0), whenever a destination copies from its source,
\* the source cell has not been written in this pass and still holds the value it
\* had before the call
C12_SourceReadBeforeWritten ==
  InPass =>
    LET move_offset == arg.dy * width_ + arg.dx
    IN  /\ move_offset < 0 => ret.dest = arg.dest - 1
        /\ move_offset > 0 => ret.dest = Len(data_) - arg.dest
        /\ ret.copied =>
             /\ ret.source \in 0..(Len(data_) - 1)
             /\ ret.source \notin ret.before
             /\ ret.source # ret.dest
             /\ data_[ret.source + 1] = pre.data[ret.source + 1]
             /\ data_[ret.dest + 1] = pre.data[ret.source + 1]

\* C12 witness: late in a descending pass a white pixel is copied from a source
\* that lies in front of the cells already written
C12_Witness ==
  /\ InPass
  /\ height_ = 2 /\ width_ = 3
  /\ arg.dy = 1 /\ arg.dx = 1
  /\ ret.copied /\ ret.dest = 4 /\ ret.source = 0
  /\ ret.before = {5}
  /\ pre.data[1] = 255 /\ pre.data[5] = 0 /\ data_[5] = 255

\* the pass, followed step by step, ends in what translateInplace computes
PassEndsInTranslateInplace ==
  (op = "translateInplace") => Self = translateInplace(pre, arg.dy, arg.dx)

\* C16: after any sequence of translateInplace calls whose shifts all lie in one
\* closed quadrant, the buffer equals the one a single translateInplace with the
\* summed shift produces from the first image, and height and width are unchanged
C16_ChainEqualsSummedShift ==
  (op = "translateInplace" /\ arg.quadrants # {}) =>
    /\ ~aborted
    /\ height_ = arg.original.height /\ width_ = arg.original.width
    /\ Self = translateInplace(arg.original, arg.sum_dy, arg.sum_dx)

\* C16 witness: a shift down, then a shift right, have carried the white corner
\* pixel of a 2 x 2 image to the opposite corner
C16_Witness ==
  /\ op = "translateInplace"
  /\ arg.original = Image(2, 2, <<255, 0, 0, 255>>)
  /\ arg.dy = 0 /\ arg.dx = 1
  /\ arg.sum_dy = 1 /\ arg.sum_dx = 1
  /\ pre.data = <<0, 0, 255, 0>>
  /\ data_ = <<0, 0, 0, 255>>

====
